---- MODULE Spec2Model ----
(***************************************************************************)
(* Heading-outline extraction of process_pdfs.py.                          *)
(*                                                                         *)
(* Texts are sequences of one-character strings, so that strip, lower,     *)
(* split, the regular expressions and the comparisons of the program are   *)
(* computed character by character.  Scores are fixed-point integers in    *)
(* units of 1/100000; font sizes and bounding boxes are integers.          *)
(***************************************************************************)
EXTENDS Integers, Sequences, FiniteSets, TLC

(***************************************************************************)
(* Characters and the str methods the program uses                         *)
(***************************************************************************)
UpperSeq == <<"A","B","C","D","E","F","G","H","I","J","K","L","M",
              "N","O","P","Q","R","S","T","U","V","W","X","Y","Z">>
LowerSeq == <<"a","b","c","d","e","f","g","h","i","j","k","l","m",
              "n","o","p","q","r","s","t","u","v","w","x","y","z">>
DigitSeq == <<"0","1","2","3","4","5","6","7","8","9">>

Upper == {UpperSeq[i] : i \in 1..26}
Lower == {LowerSeq[i] : i \in 1..26}
Digit == {DigitSeq[i] : i \in 1..10}
Letter == Upper \cup Lower
Space == {" ", "\n"}
Punct == {")", "-", ".", ":", "_"}
Chars == Letter \cup Digit \cup Space \cup Punct

\* ord(c): the code point Python compares strings by
CodePoint ==
  [c \in Chars |->
     IF c \in Upper THEN 64 + (CHOOSE i \in 1..26 : UpperSeq[i] = c)
     ELSE IF c \in Lower THEN 96 + (CHOOSE i \in 1..26 : LowerSeq[i] = c)
     ELSE IF c \in Digit THEN 47 + (CHOOSE i \in 1..10 : DigitSeq[i] = c)
     ELSE CASE c = "\n" -> 10 [] c = " " -> 32 [] c = ")" -> 41
            [] c = "-" -> 45 [] c = "." -> 46 [] c = ":" -> 58
            [] c = "_" -> 95]

\* str.lower() on one character
LowerChar ==
  [c \in Chars |->
     IF c \in Upper THEN LowerSeq[CHOOSE i \in 1..26 : UpperSeq[i] = c]
     ELSE c]

\* \w of the re module
IsWord(c) == c \in Letter \cup Digit \cup {"_"}

\* str.lower()
Lower_(s) == [i \in 1..Len(s) |-> LowerChar[s[i]]]

\* s[a:b] with 1-based inclusive positions; empty when a > b
Slice(s, a, b) == IF a > b THEN <<>> ELSE SubSeq(s, a, b)

\* the first position >= i that holds no whitespace (Len(s) + 1 if none)
LStripPos(s, i) ==
  LET stops == {k \in i..Len(s) : s[k] \notin Space}
  IN IF stops = {} THEN (IF i > Len(s) THEN i ELSE Len(s) + 1)
     ELSE CHOOSE k \in stops : \A m \in stops : k <= m

\* the last position <= j that holds no whitespace (0 if none)
RStripPos(s, j) ==
  LET stops == {k \in 1..j : s[k] \notin Space}
  IN IF stops = {} THEN 0
     ELSE CHOOSE k \in stops : \A m \in stops : k >= m

\* str.strip()
Strip(s) == Slice(s, LStripPos(s, 1), RStripPos(s, Len(s)))

\* str.split(): the maximal runs of non-whitespace characters
WordStarts(s) ==
  {i \in 1..Len(s) : s[i] \notin Space /\ (i = 1 \/ s[i - 1] \in Space)}

WordEnd(s, i) ==
  CHOOSE j \in i..Len(s) :
     /\ \A k \in i..j : s[k] \notin Space
     /\ (j = Len(s) \/ s[j + 1] \in Space)

Split(s) ==
  LET starts == WordStarts(s)
      nth(k) == CHOOSE i \in starts :
                   Cardinality({m \in starts : m < i}) = k - 1
  IN [k \in 1..Cardinality(starts) |-> SubSeq(s, nth(k), WordEnd(s, nth(k)))]

\* str.split(sep) for a one-character separator: keeps empty pieces
SplitOn(s, sep) ==
  LET cuts == {i \in 1..Len(s) : s[i] = sep}
      \* the k-th cut, with 0 before the first and Len(s) + 1 after the last
      cut(k) == IF k = 0 THEN 0
                ELSE IF k > Cardinality(cuts) THEN Len(s) + 1
                ELSE CHOOSE i \in cuts :
                        Cardinality({m \in cuts : m < i}) = k - 1
  IN [k \in 1..(Cardinality(cuts) + 1) |->
        Slice(s, cut(k - 1) + 1, cut(k) - 1)]

\* ' '.join(words)
RECURSIVE JoinSpace(_)
JoinSpace(ws) ==
  IF ws = <<>> THEN <<>>
  ELSE IF Len(ws) = 1 THEN ws[1]
  ELSE ws[1] \o <<" ">> \o JoinSpace(Tail(ws))

\* needle in hay
Contains(hay, needle) ==
  \E i \in 1..(Len(hay) - Len(needle) + 1) :
     SubSeq(hay, i, i + Len(needle) - 1) = needle

StartsWith(s, p) == Len(s) >= Len(p) /\ SubSeq(s, 1, Len(p)) = p

\* str.isupper(): some cased character, and no lower-case one
IsUpperStr(s) ==
  /\ \E i \in 1..Len(s) : s[i] \in Upper
  /\ \A i \in 1..Len(s) : s[i] \notin Lower

\* str.istitle(): upper-case letters only after uncased characters,
\* lower-case letters only after cased ones, and some cased character
IsTitleStr(s) ==
  /\ \E i \in 1..Len(s) : s[i] \in Letter
  /\ \A i \in 1..Len(s) :
        LET prevCased == i > 1 /\ s[i - 1] \in Letter
        IN /\ s[i] \in Upper => ~prevCased
           /\ s[i] \in Lower => prevCased

\* a < b as Python compares str: by code point at the first difference,
\* a proper prefix being smaller
StrLess(a, b) ==
  LET n == IF Len(a) < Len(b) THEN Len(a) ELSE Len(b)
      diffs == {i \in 1..n : a[i] # b[i]}
  IN IF diffs = {} THEN Len(a) < Len(b)
     ELSE LET d == CHOOSE i \in diffs : \A m \in diffs : i <= m
          IN CodePoint[a[d]] < CodePoint[b[d]]

\* re.sub(r'[^\w\s]', '', s)
DropPunct(s) == SelectSeq(s, LAMBDA c : IsWord(c) \/ c \in Space)

\* the set of the elements of a sequence
Range(f) == {f[i] : i \in DOMAIN f}

(***************************************************************************)
(* Regular expressions of the program, matched as re.match does (anchored  *)
(* at the start).  A position 0 means "no match".                          *)
(***************************************************************************)
\* the first position >= i that holds no character of the class cls
ClassEnd(s, i, cls) ==
  LET stops == {k \in i..Len(s) : s[k] \notin cls}
  IN IF stops = {} THEN Len(s) + 1
     ELSE CHOOSE k \in stops : \A m \in stops : k <= m

\* the position after \d+ at position i, or 0
SkipDigits(s, i) ==
  IF i >= 1 /\ i <= Len(s) /\ s[i] \in Digit THEN ClassEnd(s, i, Digit)
  ELSE 0

\* the position after \s+ at position i, or 0
SkipSpaces(s, i) ==
  IF i >= 1 /\ i <= Len(s) /\ s[i] \in Space THEN LStripPos(s, i) ELSE 0

\* the position after the literal character c at position i, or 0
SkipChar(s, i, c) ==
  IF i >= 1 /\ i <= Len(s) /\ s[i] = c THEN i + 1 ELSE 0

\* the position after [a-z]+ at position i, or 0
SkipLowers(s, i) ==
  IF i >= 1 /\ i <= Len(s) /\ s[i] \in Lower THEN ClassEnd(s, i, Lower)
  ELSE 0

\* the position after the literal word w (case-insensitively) at i, or 0
SkipWordI(s, i, w) ==
  IF i >= 1 /\ i + Len(w) - 1 <= Len(s)
        /\ Lower_(SubSeq(s, i, i + Len(w) - 1)) = Lower_(w)
  THEN i + Len(w) ELSE 0

\* $ : the end of the string, or just before a final newline
AtEnd(s, i) ==
  i >= 1 /\ (i = Len(s) + 1 \/ (i = Len(s) /\ s[i] = "\n"))

\* ^\d+\.
ReNumDot(s) == SkipChar(s, SkipDigits(s, 1), ".") > 0

\* ^\d+$
ReAllDigits(s) == AtEnd(s, SkipDigits(s, 1))

\* ^\d+\.\s+
ReN(s) == SkipSpaces(s, SkipChar(s, SkipDigits(s, 1), ".")) > 0

\* ^\d+\.\d+\s+
ReNN(s) ==
  SkipSpaces(s, SkipDigits(s, SkipChar(s, SkipDigits(s, 1), "."))) > 0

\* ^\d+\.\d+\.\d+\s+
ReNNN(s) ==
  SkipSpaces(s,
    SkipDigits(s, SkipChar(s,
      SkipDigits(s, SkipChar(s, SkipDigits(s, 1), ".")), "."))) > 0

\* ^\d+\.\s+[A-Z] with re.IGNORECASE
ReNCap(s) ==
  LET p == SkipSpaces(s, SkipChar(s, SkipDigits(s, 1), "."))
  IN p > 0 /\ p <= Len(s) /\ s[p] \in Letter

\* ^Chapter\s+\d+ with re.IGNORECASE
ReChapter(s) ==
  SkipDigits(s, SkipSpaces(s,
     SkipWordI(s, 1, <<"C","h","a","p","t","e","r">>))) > 0

\* ^Section\s+\d+ with re.IGNORECASE
ReSection(s) ==
  SkipDigits(s, SkipSpaces(s,
     SkipWordI(s, 1, <<"S","e","c","t","i","o","n">>))) > 0

\* ^[A-Z]\.\s+ with re.IGNORECASE
ReLetterDot(s) ==
  Len(s) >= 1 /\ s[1] \in Letter /\ SkipSpaces(s, SkipChar(s, 2, ".")) > 0

\* ^[IVX]+\.\s+ with re.IGNORECASE
ReRoman(s) ==
  LET roman == {"I", "V", "X", "i", "v", "x"}
  IN /\ Len(s) >= 1 /\ s[1] \in roman
     /\ SkipSpaces(s, SkipChar(s, ClassEnd(s, 1, roman), ".")) > 0

\* ^[a-z]+\)
ReLowerParen(s) == SkipChar(s, SkipLowers(s, 1), ")") > 0

\* ^[A-Z][a-z]+(\s+[A-Z][a-z]+)*:?$  from position i, which follows a word
RECURSIVE TitleTail(_, _)
TitleTail(s, i) ==
  IF AtEnd(s, i) THEN TRUE
  ELSE IF AtEnd(s, SkipChar(s, i, ":")) THEN TRUE
  ELSE LET p == SkipSpaces(s, i)
           q == IF p > 0 /\ p <= Len(s) /\ s[p] \in Upper
                THEN SkipLowers(s, p + 1) ELSE 0
       IN IF q > 0 THEN TitleTail(s, q) ELSE FALSE

ReTitleCase(s) ==
  /\ Len(s) >= 1 /\ s[1] \in Upper
  /\ LET q == SkipLowers(s, 2) IN q > 0 /\ TitleTail(s, q)

\* ^[A-Z][A-Z\s]{8,}$ with re.IGNORECASE
ReCapsLine(s) ==
  LET n == IF Len(s) >= 1 /\ s[Len(s)] = "\n" THEN Len(s) - 1 ELSE Len(s)
  IN \/ /\ Len(s) >= 9 /\ s[1] \in Letter
        /\ \A i \in 2..Len(s) : s[i] \in Letter \cup Space
     \/ /\ n >= 9 /\ s[1] \in Letter
        /\ \A i \in 2..n : s[i] \in Letter \cup Space

\* ^(Acknowledgements?|References?|Table\s+of\s+Contents)$, re.IGNORECASE
ReSpecialSection(s) ==
  LET a == SkipWordI(s, 1, <<"A","c","k","n","o","w","l","e","d","g","e",
                             "m","e","n","t">>)
      r == SkipWordI(s, 1, <<"R","e","f","e","r","e","n","c","e">>)
      t == SkipWordI(s, SkipSpaces(s,
              SkipWordI(s, SkipSpaces(s,
                 SkipWordI(s, 1, <<"T","a","b","l","e">>)),
                 <<"o","f">>)), <<"C","o","n","t","e","n","t","s">>)
      OptS(p) == IF p > 0 /\ p <= Len(s) /\ LowerChar[s[p]] = "s"
                 THEN {p, p + 1} ELSE {p}
  IN \/ a > 0 /\ \E p \in OptS(a) : AtEnd(s, p)
     \/ r > 0 /\ \E p \in OptS(r) : AtEnd(s, p)
     \/ t > 0 /\ AtEnd(s, t)

(***************************************************************************)
(* Font statistics and heading score                                       *)
(***************************************************************************)
\* 1.0 in the fixed-point unit of the scores
Unit == 100000

RECURSIVE SumSeq(_)
SumSeq(q) == IF q = <<>> THEN 0 ELSE q[1] + SumSeq(Tail(q))

SeqMax(q) == CHOOSE m \in Range(q) : \A x \in Range(q) : x <= m
SeqMin(q) == CHOOSE m \in Range(q) : \A x \in Range(q) : x >= m

\* the average size is kept as the exact fraction size_sum / size_cnt
_calculate_font_statistics(text_blocks) ==
  LET sizes == SelectSeq([i \in 1..Len(text_blocks) |-> text_blocks[i].size],
                         LAMBDA z : z > 0)
  IN IF sizes = <<>>
     THEN [size_sum |-> 12, size_cnt |-> 1, max_size |-> 12, min_size |-> 12,
           total_blocks |-> 0]
     ELSE [size_sum |-> SumSeq(sizes), size_cnt |-> Len(sizes),
           max_size |-> SeqMax(sizes), min_size |-> SeqMin(sizes),
           total_blocks |-> Len(text_blocks)]

Clamp(lo, x, hi) == IF x < lo THEN lo ELSE IF x > hi THEN hi ELSE x

_analyze_layout_properties(block) ==
  LET x0 == block.bbox[1]
      y0 == block.bbox[2]
      x1 == block.bbox[3]
      line_width == x1 - x0
      width == IF line_width > 0
               THEN (IF line_width < 200 THEN 30000
                     ELSE IF line_width > 400 THEN -20000 ELSE 0)
               ELSE 0
      margin == IF x0 < 100 THEN 25000 ELSE 0
      top == IF y0 < 200 THEN 10000 ELSE 0
      wide == IF line_width > 500 THEN -30000 ELSE 0
  IN Clamp(0, width + margin + top + wide, Unit)

\* the weight of the first matching pattern, times 0.12
_check_numbering_patterns(text) ==
  IF ReN(text) THEN 12000
  ELSE IF ReNN(text) THEN 9600
  ELSE IF ReNNN(text) THEN 7200
  ELSE IF ReChapter(text) THEN 10800
  ELSE IF ReSection(text) THEN 9600
  ELSE IF ReLetterDot(text) THEN 8400
  ELSE IF ReRoman(text) THEN 8400
  ELSE 0

\* a score that is computed for the shortest texts as for any other
_calculate_heading_score_AnyLength(block, font_stats) ==
  LET text == Strip(block.text)
      num == block.size * font_stats.size_cnt
      den == font_stats.size_sum
      size_term == IF 10 * num > 13 * den
                   THEN (IF num >= 2 * den THEN 25000
                         ELSE ((1250 * num) \div den) * 10)
                   ELSE 0
      bold_term == IF block.is_bold THEN 20000 ELSE 0
      layout_term == _analyze_layout_properties(block) \div 5
      word_count == Len(Split(text))
      length_term == IF 1 <= word_count /\ word_count <= 10 THEN 15000
                     ELSE IF word_count > 20 THEN -10000 ELSE 0
      caps_term == IF IsUpperStr(text) /\ Len(text) > 3 THEN 8000
                   ELSE IF IsTitleStr(text) THEN 4000 ELSE 0
      long_pen == IF Len(text) > 100 THEN -20000 ELSE 0
      sent_pen == IF text # <<>> /\ text[Len(text)] = "." /\ word_count > 5
                  THEN -10000 ELSE 0
      score == size_term + bold_term + layout_term + length_term
               + _check_numbering_patterns(text) + caps_term
               + long_pen + sent_pen
  IN IF score > Unit THEN Unit ELSE score

_calculate_heading_score(block, font_stats) ==
  LET text == Strip(block.text)
      num == block.size * font_stats.size_cnt
      den == font_stats.size_sum
      \* size_ratio > 1.3, and 0.25 * min(size_ratio / 2, 1.0)
      size_term == IF 10 * num > 13 * den
                   THEN (IF num >= 2 * den THEN 25000
                         ELSE ((1250 * num) \div den) * 10)
                   ELSE 0
      bold_term == IF block.is_bold THEN 20000 ELSE 0
      layout_term == _analyze_layout_properties(block) \div 5
      word_count == Len(Split(text))
      length_term == IF 1 <= word_count /\ word_count <= 10 THEN 15000
                     ELSE IF word_count > 20 THEN -10000 ELSE 0
      caps_term == IF IsUpperStr(text) /\ Len(text) > 3 THEN 8000
                   ELSE IF IsTitleStr(text) THEN 4000 ELSE 0
      long_pen == IF Len(text) > 100 THEN -20000 ELSE 0
      sent_pen == IF text # <<>> /\ text[Len(text)] = "." /\ word_count > 5
                  THEN -10000 ELSE 0
      score == size_term + bold_term + layout_term + length_term
               + _check_numbering_patterns(text) + caps_term
               + long_pen + sent_pen
  IN IF Len(text) < 2 THEN 0
     ELSE IF score > Unit THEN Unit ELSE score

(***************************************************************************)
(* Threshold, filter, level classification, hierarchy repair               *)
(***************************************************************************)
\* the key (page, text) of the sort in _apply_hierarchy_consistency
PageTextBefore(a, b) ==
  a.page < b.page \/ (a.page = b.page /\ StrLess(a.text, b.text))

\* the key (page, position) of the sort in _merge_outline_and_font_headings;
\* no heading carries a "position", so x.get("position", 0) is always 0
PagePositionBefore(a, b) == a.page < b.page

\* the sort keys of the program: does a come strictly before b
Before(key, a, b) ==
  CASE key = "score_desc" -> a.score > b.score
    [] key = "desc" -> a > b
    [] key = "page_text" -> PageTextBefore(a, b)
    [] key = "page_position" -> PagePositionBefore(a, b)

\* list.sort(key=...) is stable: x goes before the first element that
\* comes strictly after it
RECURSIVE InsertSorted(_, _, _)
InsertSorted(q, x, key) ==
  IF q = <<>> THEN <<x>>
  ELSE IF Before(key, x, q[1]) THEN <<x>> \o q
  ELSE <<q[1]>> \o InsertSorted(Tail(q), x, key)

RECURSIVE StableSort(_, _)
StableSort(q, key) ==
  IF q = <<>> THEN <<>>
  ELSE InsertSorted(StableSort(SubSeq(q, 1, Len(q) - 1), key),
                    q[Len(q)], key)

\* a threshold taken at the median of the scores
_calculate_dynamic_threshold_Median(scores) ==
  IF scores = <<>> THEN 50000
  ELSE LET scores_sorted == StableSort(scores, "desc")
       IN IF Len(scores_sorted) > 5
          THEN LET percentile_75 ==
                     scores_sorted[(Len(scores_sorted) \div 2) + 1]
               IN Clamp(50000, percentile_75, 70000)
          ELSE LET low == (scores_sorted[1] * 6) \div 10
               IN IF low > 30000 THEN low ELSE 30000

\* a threshold that still treats six scores as a short list
_calculate_dynamic_threshold_ShortUpTo6(scores) ==
  IF scores = <<>> THEN 50000
  ELSE LET scores_sorted == StableSort(scores, "desc")
       IN IF Len(scores_sorted) > 6
          THEN LET percentile_75 ==
                     scores_sorted[(Len(scores_sorted) \div 4) + 1]
               IN Clamp(50000, percentile_75, 70000)
          ELSE LET low == (scores_sorted[1] * 6) \div 10
               IN IF low > 30000 THEN low ELSE 30000

_calculate_dynamic_threshold(scores) ==
  IF scores = <<>> THEN 50000
  ELSE LET scores_sorted == StableSort(scores, "desc")
       IN IF Len(scores_sorted) > 5
          THEN LET percentile_75 ==
                     scores_sorted[(Len(scores_sorted) \div 4) + 1]
               IN Clamp(50000, percentile_75, 70000)
          ELSE LET low == (scores_sorted[1] * 6) \div 10
               IN IF low > 30000 THEN low ELSE 30000

\* 'page', 'date', ... : the texts _is_header_footer_advanced ignores
ignore_patterns ==
  { <<"i","n","t","e","r","n","a","t","i","o","n","a","l">>,
    <<"o","v","e","r","v","i","e","w">>,
    <<"s","o","f","t","w","a","r","e"," ","t","e","s","t","i","n","g">>,
    <<"q","u","a","l","i","f","i","c","a","t","i","o","n","s"," ",
      "b","o","a","r","d">>,
    <<"f","o","u","n","d","a","t","i","o","n"," ","l","e","v","e","l"," ",
      "e","x","t","e","n","s","i","o","n">>,
    <<"a","g","i","l","e"," ","t","e","s","t","e","r">>,
    <<"p","a","g","e">>,
    <<"c","o","p","y","r","i","g","h","t">>,
    <<"c","o","n","f","i","d","e","n","t","i","a","l">>,
    <<"d","r","a","f","t">>,
    <<"v","e","r","s","i","o","n">>,
    <<"d","a","t","e">>,
    <<"d","o","c","u","m","e","n","t">>,
    <<"t","i","t","l","e">> }

\* a header/footer test that suppresses short texts by position only
_is_header_footer_advanced_ByPosition(text, block) ==
  LET text_lower == Strip(Lower_(text))
      y0 == block.bbox[2]
      words == Len(Split(text))
  IN \/ text_lower \in ignore_patterns
     \/ Len(text) < 3
     \/ ReAllDigits(text_lower)
     \/ (y0 < 50 \/ y0 > 700) /\ words <= 3

_is_header_footer_advanced(text, block) ==
  LET text_lower == Strip(Lower_(text))
      y0 == block.bbox[2]
      words == Len(Split(text))
  IN \/ text_lower \in ignore_patterns
     \/ Len(text) < 3
     \/ ReAllDigits(text_lower)
     \/ (y0 < 50 \/ y0 > 700) /\ words <= 3
     \/ words <= 2 /\ ~ReNumDot(text)

\* a classifier that consults the font before the patterns
_determine_heading_level_advanced_FontFirst(text, block) ==
  LET font_size == block.size
      is_bold == block.is_bold
  IN IF font_size > 16 \/ (font_size > 14 /\ is_bold) THEN "H1"
     ELSE IF ReNNN(text) \/ ReLowerParen(text) THEN "H3"
     ELSE IF ReNN(text) \/ ReTitleCase(text) THEN "H2"
     ELSE IF ReNCap(text) \/ ReCapsLine(text) \/ ReChapter(text)
             \/ ReSpecialSection(text) THEN "H1"
     ELSE IF font_size > 12 \/ is_bold THEN "H2"
     ELSE "H3"

_determine_heading_level_advanced(text, block) ==
  LET font_size == block.size
      is_bold == block.is_bold
  IN IF ReNNN(text) \/ ReLowerParen(text) THEN "H3"
     ELSE IF ReNN(text) \/ ReTitleCase(text) THEN "H2"
     ELSE IF ReNCap(text) \/ ReCapsLine(text) \/ ReChapter(text)
             \/ ReSpecialSection(text) THEN "H1"
     ELSE IF font_size > 16 \/ (font_size > 14 /\ is_bold) THEN "H1"
     ELSE IF font_size > 12 \/ is_bold THEN "H2"
     ELSE "H3"

\* a forward pass that leaves out the heading it promotes
RECURSIVE HierarchyPass_DropPromoted(_, _)
HierarchyPass_DropPromoted(headings, last_level) ==
  IF headings = <<>> THEN <<>>
  ELSE LET heading == headings[1]
       IN IF heading.level = "H3" /\ last_level = "H1"
          THEN HierarchyPass_DropPromoted(Tail(headings), "H2")
          ELSE <<heading>>
               \o HierarchyPass_DropPromoted(Tail(headings), heading.level)

\* the forward pass: an H3 right after an H1 becomes H2
RECURSIVE HierarchyPass(_, _)
HierarchyPass(headings, last_level) ==
  IF headings = <<>> THEN <<>>
  ELSE LET heading == headings[1]
           level == IF heading.level = "H3" /\ last_level = "H1"
                    THEN "H2" ELSE heading.level
       IN <<[heading EXCEPT !.level = level]>>
          \o HierarchyPass(Tail(headings), level)

\* a repair that walks the headings in the order it is given them
_apply_hierarchy_consistency_Unsorted(headings) ==
  IF headings = <<>> THEN headings
  ELSE HierarchyPass(headings, "H1")

_apply_hierarchy_consistency(headings) ==
  IF headings = <<>> THEN headings
  ELSE HierarchyPass(StableSort(headings, "page_text"), "H1")

\* line 663: 'if page_count > 8', commented "Max headings per page"
MaxHeadingsPerPage == 8

\* the number of headings of a list that lie on a page
PageCount(headings, page) ==
  Cardinality({i \in 1..Len(headings) : headings[i].page = page})

\* the loop of _filter_and_classify_headings over the sorted candidates;
\* acc is [headings, seen_texts]
RECURSIVE FilterLoop(_, _, _)
FilterLoop(items, threshold, acc) ==
  IF items = <<>> THEN acc.headings
  ELSE LET item == items[1]
           block == item.block
           text == Strip(block.text)
           text_key == Strip(Lower_(text))
           rest == Tail(items)
       IN IF item.score < threshold
          THEN FilterLoop(rest, threshold, acc)
          ELSE IF text_key \in acc.seen_texts
          THEN FilterLoop(rest, threshold, acc)
          ELSE LET seen == acc.seen_texts \cup {text_key}
               IN IF _is_header_footer_advanced(text, block)
                  THEN FilterLoop(rest, threshold,
                                  [acc EXCEPT !.seen_texts = seen])
                  ELSE IF PageCount(acc.headings, block.page) > MaxHeadingsPerPage
                  THEN FilterLoop(rest, threshold,
                                  [acc EXCEPT !.seen_texts = seen])
                  ELSE FilterLoop(rest, threshold,
                         [headings |-> Append(acc.headings,
                             [level |-> _determine_heading_level_advanced(
                                           text, block),
                              text |-> text, page |-> block.page]),
                          seen_texts |-> seen])

\* the accepted headings before the hierarchy pass
AcceptedHeadings(scored_blocks) ==
  LET sorted == StableSort(scored_blocks, "score_desc")
      scores == [i \in 1..Len(sorted) |-> sorted[i].score]
      threshold == _calculate_dynamic_threshold(scores)
  IN FilterLoop(sorted, threshold, [headings |-> <<>>, seen_texts |-> {}])

_filter_and_classify_headings(scored_blocks) ==
  IF scored_blocks = <<>> THEN <<>>
  ELSE _apply_hierarchy_consistency(AcceptedHeadings(scored_blocks))

\* the candidates: the blocks with a score above 0.3, in input order
ScoredBlocks(text_blocks) ==
  LET font_stats == _calculate_font_statistics(text_blocks)
      all == [i \in 1..Len(text_blocks) |->
                [block |-> text_blocks[i],
                 score |-> _calculate_heading_score(text_blocks[i],
                                                    font_stats)]]
  IN SelectSeq(all, LAMBDA it : it.score > 30000)

_detect_headings_from_blocks(text_blocks) ==
  IF text_blocks = <<>> THEN <<>>
  ELSE _filter_and_classify_headings(ScoredBlocks(text_blocks))

(***************************************************************************)
(* External outline: validation against the page texts, and the merge      *)
(***************************************************************************)
_fuzzy_match_heading(title, page_text) ==
  LET clean_title == DropPunct(Lower_(title))
      clean_text == Lower_(page_text)
      words == Split(clean_title)
      found_words ==
        Cardinality({k \in 1..Len(words) : Contains(clean_text, words[k])})
  IN IF Len(words) >= 2 THEN 10 * found_words >= 7 * Len(words)
     ELSE FALSE

\* page_text.split('\n')[:20]
FirstLines(page_text, n) ==
  LET lines == SplitOn(page_text, "\n")
  IN SubSeq(lines, 1, IF Len(lines) < n THEN Len(lines) ELSE n)

\* the condition under which _validate_outline_headings keeps a heading
OutlineHeadingValid(heading, page_texts) ==
  LET title == Strip(heading.text)
      page_num == heading.page
  IN /\ 1 <= page_num /\ page_num <= Len(page_texts)
     /\ LET page_text == page_texts[page_num]
            lines == FirstLines(page_text, 20)
        IN \/ Contains(page_text, title)
           \/ \E k \in 1..Len(lines) :
                 Contains(Lower_(lines[k]), Lower_(title))
           \/ _fuzzy_match_heading(title, page_text)

_validate_outline_headings(outline, page_texts) ==
  SelectSeq(outline, LAMBDA heading : OutlineHeadingValid(heading, page_texts))

_similar_text(text1, text2) ==
  LET clean1 == Strip(DropPunct(Lower_(text1)))
      clean2 == Strip(DropPunct(Lower_(text2)))
      words1 == Range(Split(clean1))
      words2 == Range(Split(clean2))
  IN \/ clean1 = clean2
     \/ Contains(clean2, clean1)
     \/ Contains(clean1, clean2)
     \/ /\ words1 # {} /\ words2 # {}
        /\ 10 * Cardinality(words1 \cap words2)
              > 6 * Cardinality(words1 \cup words2)

AbsDiff(a, b) == IF a >= b THEN a - b ELSE b - a

\* a merge that looks for the covering entry on the very page of the
\* heading only
IsDuplicate_SamePage(font_heading, outline_headings) ==
  \E k \in 1..Len(outline_headings) :
     /\ _similar_text(font_heading.text, outline_headings[k].text)
     /\ font_heading.page = outline_headings[k].page

\* is_duplicate of _merge_outline_and_font_headings
IsDuplicate(font_heading, outline_headings) ==
  \E k \in 1..Len(outline_headings) :
     /\ _similar_text(font_heading.text, outline_headings[k].text)
     /\ AbsDiff(font_heading.page, outline_headings[k].page) <= 1

_merge_outline_and_font_headings(outline_headings, font_headings) ==
  LET kept == SelectSeq(font_headings,
                        LAMBDA f : ~IsDuplicate(f, outline_headings))
  IN StableSort(outline_headings \o kept, "page_position")

(***************************************************************************)
(* Regex fallback, title, and the entry points                             *)
(***************************************************************************)
\* a result of a call: a value, or an exception that propagates
Return(v) == [raised |-> FALSE, value |-> v, error |-> "none"]
Raise(e) == [raised |-> TRUE, value |-> <<>>, error |-> e]

\* the name _extract_headings_from_page is bound nowhere in the module (its
\* body follows the return of _extract_outline_regex_fallback), so the call
\* raises NameError
_extract_headings_from_page(page_content, page_num) == Raise("NameError")

PageWord == <<"-","-","-"," ","P","A","G","E">>

\* the position after the literal w at position i, or 0
SkipLit(s, i, w) ==
  IF i >= 1 /\ i + Len(w) - 1 <= Len(s) /\ SubSeq(s, i, i + Len(w) - 1) = w
  THEN i + Len(w) ELSE 0

\* the position after a match of '\n--- PAGE (\d+) ---\n' at position i, or 0
PageMarkerEnd(s, i) ==
  SkipLit(s, SkipDigits(s, SkipLit(s, i, <<"\n">> \o PageWord \o <<" ">>)),
          <<" ", "-", "-", "-", "\n">>)

\* the positions where re.split finds the page marker (matches do not
\* overlap: a later match starts at or after the end of the earlier one)
RECURSIVE MarkersFrom(_, _)
MarkersFrom(s, i) ==
  LET starts == {k \in i..Len(s) : PageMarkerEnd(s, k) > 0}
  IN IF starts = {} THEN <<>>
     ELSE LET k == CHOOSE m \in starts : \A n \in starts : m <= n
          IN <<k>> \o MarkersFrom(s, PageMarkerEnd(s, k))

\* int() of a sequence of digits
RECURSIVE ParseInt(_)
ParseInt(d) ==
  IF d = <<>> THEN 0
  ELSE 10 * ParseInt(SubSeq(d, 1, Len(d) - 1))
       + (CodePoint[d[Len(d)]] - 48)

\* the pages of the loop: parts[i] and parts[i + 1] for i = 1, 3, ...
PageParts(s) ==
  LET marks == MarkersFrom(s, 1)
  IN [k \in 1..Len(marks) |->
        LET from == PageMarkerEnd(s, marks[k])
            to == IF k < Len(marks) THEN marks[k + 1] - 1 ELSE Len(s)
            numFrom == marks[k] + Len(PageWord) + 2
        IN [page_num |-> ParseInt(SubSeq(s, numFrom, from - 6)),
            page_content |-> Slice(s, from, to)]]

\* outline.extend(...) over the calls, the first exception propagating
RECURSIVE ExtendAll(_, _)
ExtendAll(calls, outline) ==
  IF calls = <<>> THEN Return(outline)
  ELSE IF calls[1].raised THEN calls[1]
  ELSE ExtendAll(Tail(calls), outline \o calls[1].value)

_extract_outline_regex_fallback(text_content) ==
  IF Contains(text_content, PageWord)
  THEN LET parts == PageParts(text_content)
       IN ExtendAll([k \in 1..Len(parts) |->
                       _extract_headings_from_page(parts[k].page_content,
                                                   parts[k].page_num)],
                    <<>>)
  ELSE ExtendAll(<<_extract_headings_from_page(text_content, 1)>>, <<>>)

\* Path(pdf_filename).stem, for a file name without directories
Stem(name) ==
  LET dots == {i \in 1..Len(name) : name[i] = "."}
      i == IF dots = {} THEN 0
           ELSE CHOOSE d \in dots : \A m \in dots : d >= m
  IN IF 1 < i /\ i < Len(name) THEN SubSeq(name, 1, i - 1) ELSE name

DocumentFrom == <<"D","o","c","u","m","e","n","t"," ","f","r","o","m"," ">>

title_hints ==
  { <<"f","o","u","n","d","a","t","i","o","n">>,
    <<"l","e","v","e","l">>,
    <<"e","x","t","e","n","s","i","o","n">>,
    <<"o","v","e","r","v","i","e","w">>,
    <<"i","n","t","r","o","d","u","c","t","i","o","n">>,
    <<"g","u","i","d","e">>,
    <<"m","a","n","u","a","l">>,
    <<"d","o","c","u","m","e","n","t">> }

title_indicators ==
  { <<"o","v","e","r","v","i","e","w">>,
    <<"i","n","t","r","o","d","u","c","t","i","o","n">>,
    <<"g","u","i","d","e">>,
    <<"m","a","n","u","a","l">>,
    <<"f","o","u","n","d","a","t","i","o","n">>,
    <<"l","e","v","e","l">>,
    <<"e","x","t","e","n","s","i","o","n">>,
    <<"c","h","a","l","l","e","n","g","e">>,
    <<"h","a","c","k","a","t","h","o","n">> }

title_boilerplate ==
  { <<"i","n","t","e","r","n","a","t","i","o","n","a","l">>,
    <<"o","v","e","r","v","i","e","w">>,
    <<"s","o","f","t","w","a","r","e"," ","t","e","s","t","i","n","g">>,
    <<"q","u","a","l","i","f","i","c","a","t","i","o","n","s"," ","b","o",
      "a","r","d">> }

\* ^--- PAGE \d+ ---$
RePageMarkerLine(line) ==
  LET q == SkipDigits(line, IF StartsWith(line, PageWord \o <<" ">>)
                            THEN Len(PageWord) + 2 ELSE 0)
  IN q > 0 /\ q + 3 <= Len(line) /\ SubSeq(line, q, q + 3) = <<" ","-","-","-">>
     /\ AtEnd(line, q + 4)

\* ^[A-Z][A-Za-z\s\-]{10,80}$
ReTitleShape(line) ==
  /\ Len(line) >= 11 /\ Len(line) <= 81
  /\ line[1] \in Upper
  /\ \A i \in 2..Len(line) : line[i] \in Letter \cup Space \cup {"-"}

\* the decision _extract_document_title takes on one stripped line:
\* "skip" to go on with the next line, "title" to return the line
TitleLineVerdict(line) ==
  IF line = <<>> THEN "skip"
  ELSE IF RePageMarkerLine(line) THEN "skip"
  ELSE IF Lower_(line) \in title_boilerplate THEN "skip"
  ELSE IF ReTitleShape(line)
          /\ \E w \in title_hints : Contains(Lower_(line), w) THEN "title"
  ELSE IF Len(line) > 10 /\ Len(line) < 100
          /\ \E w \in title_indicators : Contains(Lower_(line), w)
       THEN "title"
  ELSE "skip"

_extract_document_title(text_content, pdf_filename) ==
  IF text_content = <<>> THEN DocumentFrom \o Stem(pdf_filename)
  ELSE LET lines == FirstLines(text_content, 100)
           hits == {k \in 1..Len(lines) :
                       TitleLineVerdict(Strip(lines[k])) = "title"}
       IN IF hits = {} THEN DocumentFrom \o Stem(pdf_filename)
          ELSE Strip(lines[CHOOSE k \in hits : \A m \in hits : k <= m])

\* the function attribute _extract_outline._metadata before any assignment;
\* a metadata dict is a record with present = TRUE, an absent key of which
\* reads as <<>>, as metadata.get(key, []) does
NoMetadata == [present |-> FALSE]

Metadata(pdf_outline, text_blocks, page_texts) ==
  [present |-> TRUE, pdf_outline |-> pdf_outline,
   text_blocks |-> text_blocks, page_texts |-> page_texts]

\* the locals validated_outline and font_headings of _extract_outline
ValidatedOutline(metadata, page_texts) ==
  IF metadata.present /\ metadata.pdf_outline # <<>>
  THEN _validate_outline_headings(metadata.pdf_outline, page_texts)
  ELSE <<>>

FontHeadings(metadata) ==
  IF metadata.present THEN _detect_headings_from_blocks(metadata.text_blocks)
  ELSE <<>>

\* line 435: 'if len(outline) < 10', the threshold for sufficient headings
SufficientHeadings == 10

\* the branch _extract_outline takes
OutlinePath(metadata, page_texts) ==
  IF ~metadata.present THEN "fallback"
  ELSE IF ~(Len(ValidatedOutline(metadata, page_texts)) < SufficientHeadings)
       THEN "external"
  ELSE IF metadata.text_blocks = <<>> THEN "fallback"
  ELSE IF ValidatedOutline(metadata, page_texts) # <<>> THEN "merged"
  ELSE "font"

\* _extract_outline, reading the function attribute _metadata
_extract_outline(text_content, page_texts, metadata) ==
  LET outline == ValidatedOutline(metadata, page_texts)
      path == OutlinePath(metadata, page_texts)
  IN CASE path = "external" -> Return(outline)
       [] path = "merged" ->
            Return(_merge_outline_and_font_headings(outline,
                                                    FontHeadings(metadata)))
       [] path = "font" -> Return(FontHeadings(metadata))
       [] path = "fallback" -> _extract_outline_regex_fallback(text_content)

(***************************************************************************)
(* Documents: what the extraction step hands to parse_document_structure   *)
(***************************************************************************)
Block(text, page, y0, width, size, is_bold) ==
  [text |-> text, page |-> page, bbox |-> <<72, y0, 72 + width, y0 + size>>,
   font |-> "Helvetica", size |-> size, is_bold |-> is_bold]

Heading(level, text, page) == [level |-> level, text |-> text, page |-> page]

\* the lines a page can carry, with their font and position
BlockPool ==
  << Block(<<"1","."," ","I","n","t","r","o","d","u","c","t","i","o","n">>,
           1, 100, 150, 16, TRUE),
     Block(<<"2",".","1"," ","O","v","e","r","v","i","e","w">>,
           1, 300, 150, 12, TRUE),
     Block(<<"2",".","1",".","1"," ","D","e","t","a","i","l","s">>,
           2, 100, 150, 12, TRUE),
     Block(<<"a",")"," ","f","i","r","s","t"," ","p","o","i","n","t"," ","h","e","r","e">>,
           1, 400, 180, 12, TRUE),
     Block(<<"P","r","o","j","e","c","t"," ","P","l","a","n"," ","S","u","m","m","a","r","y">>,
           2, 300, 180, 14, TRUE),
     Block(<<"P","R","O","J","E","C","T"," ","P","L","A","N"," ","S","U","M","M","A","R","Y">>,
           2, 400, 190, 18, TRUE),
     Block(<<"P","r","o","j","e","c","t"," "," ","P","l","a","n"," ","S","u","m","m","a","r","y">>,
           3, 100, 185, 14, TRUE),
     Block(<<"P","a","g","e"," ","3">>,
           3, 750, 40, 10, FALSE),
     Block(<<"T","h","i","s"," ","i","s"," ","t","h","e"," ","b","o","d","y"," ","t","e","x","t"," ","o","f"," ","t","h","e"," ","p","a","g","e",".">>,
           1, 500, 450, 10, FALSE) >>

\* the bookmarks an embedded table of contents can carry
EntryPool ==
  << Heading("H1", <<"P","r","o","j","e","c","t"," ","P","l","a","n"," ","S","u","m","m","a","r","y">>, 2),
     Heading("H2", <<"P","l","a","n"," ","S","u","m","m","a","r","y">>, 3),
     Heading("H1", <<"M","i","s","s","i","n","g"," ","C","h","a","p","t","e","r">>, 1),
     Heading("H2", <<"I","n","t","r","o","d","u","c","t","i","o","n">>, 4),
     Heading("H1", <<"O","v","e","r","v","i","e","w">>, 1) >>

\* bounds of the enumerated documents
MaxBlocks == 2
MaxEntries == 1
MaxDense == 10
MaxRuns == 2

\* str(n) for n >= 0
RECURSIVE Digits(_)
Digits(n) ==
  IF n < 10 THEN <<DigitSeq[n + 1]>>
  ELSE Digits(n \div 10) \o <<DigitSeq[(n % 10) + 1]>>

RECURSIVE Concat(_)
Concat(qs) == IF qs = <<>> THEN <<>> ELSE qs[1] \o Concat(Tail(qs))

\* doc.page_count: the pages run up to the last page that carries a line
PageCountOf(text_blocks) ==
  IF text_blocks = <<>> THEN 0
  ELSE SeqMax([i \in 1..Len(text_blocks) |-> text_blocks[i].page])

\* page.get_text() of every page: the lines of the page, one per line
PageTexts(text_blocks) ==
  [k \in 1..PageCountOf(text_blocks) |->
     Concat([i \in 1..Len(text_blocks) |->
               IF text_blocks[i].page = k
               THEN text_blocks[i].text \o <<"\n">> ELSE <<>>])]

\* text_content of the extractors: the pages behind their markers, stripped
TextContent(page_texts) ==
  Strip(Concat([k \in 1..Len(page_texts) |->
                  <<"\n">> \o PageWord \o <<" ">> \o Digits(k)
                  \o <<" ", "-", "-", "-", "\n">> \o page_texts[k]]))

\* the arguments of parse_document_structure for a document; the method
\* says which keys the metadata carries:
\*   "pymupdf"    page_texts, text_blocks and pdf_outline
\*   "pdfplumber" page_texts only (also PyPDF2)
\*   "no_blocks"  page_texts and pdf_outline, the text blocks missing
MakeDoc(text_blocks, pdf_outline, method, pdf_filename) ==
  LET page_texts == PageTexts(text_blocks)
  IN [text_content |-> TextContent(page_texts),
      pdf_filename |-> pdf_filename,
      page_count |-> Len(page_texts),
      extraction_metadata |->
        CASE method = "pymupdf" ->
               Metadata(pdf_outline, text_blocks, page_texts)
          [] method = "pdfplumber" -> Metadata(<<>>, <<>>, page_texts)
          [] method = "no_blocks" -> Metadata(pdf_outline, <<>>, page_texts)]

SeqsUpTo(S, n) == UNION {[1..k -> S] : k \in 0..n}

ReportPdf == <<"r","e","p","o","r","t",".","p","d","f">>
NotesPdf == <<"n","o","t","e","s",".","v","2",".","p","d","f">>

\* documents without bookmarks, with and without font metadata
BlockDocs ==
  {MakeDoc(b, <<>>, m, ReportPdf) :
     b \in SeqsUpTo(Range(BlockPool), MaxBlocks),
     m \in {"pymupdf", "pdfplumber"}}

\* the lines of a sample document with bookmarks: sections on three pages
SampleLines ==
  <<BlockPool[2], BlockPool[3], BlockPool[5], BlockPool[6], BlockPool[7]>>

\* the subsequence of q that keeps the positions in keep
SubSeqAt(q, keep) ==
  SelectSeq([i \in 1..Len(q) |-> IF i \in keep THEN <<q[i]>> ELSE <<>>],
            LAMBDA x : x # <<>>)

\* documents with bookmarks: any selection of the sample lines
OutlineDocs ==
  {MakeDoc(Concat(SubSeqAt(SampleLines, keep)), o, m, ReportPdf) :
     keep \in SUBSET (1..Len(SampleLines)),
     o \in SeqsUpTo(Range(EntryPool), MaxEntries) \ {<<>>},
     m \in {"pymupdf", "no_blocks"}}

Topic == <<"."," ","T","o","p","i","c">>

\* a page crowded with numbered headings "1. Topic", "2. Topic", ...: the
\* first k of the n lines on page 1, the others on page 2
DenseBlocks(n, k) ==
  [i \in 1..n |->
     Block(Digits(i) \o Topic, IF i <= k THEN 1 ELSE 2, 200 + 40 * i, 150,
           14, TRUE)]

\* the bookmarks of the first m of these lines
DenseToc(k, m) ==
  [i \in 1..m |-> Heading("H1", Digits(i) \o Topic, IF i <= k THEN 1 ELSE 2)]

\* n lines, all on page 1 or half of them, with no bookmarks or with just
\* fewer than, or just as many as, _extract_outline takes to be sufficient
DenseDocs ==
  UNION {{MakeDoc(DenseBlocks(n, k), DenseToc(k, m), "pymupdf", NotesPdf) :
            k \in {n, (n + 1) \div 2},
            m \in {j \in {0, SufficientHeadings - 1, SufficientHeadings} :
                     j <= n}} :
         n \in 0..MaxDense}

Docs == BlockDocs \cup OutlineDocs \cup DenseDocs

(***************************************************************************)
(* The program: calls of parse_document_structure by worker threads        *)
(***************************************************************************)
Workers == {1, 2}

VARIABLES
  batch,       \* the run of process_pdfs: files left, JSON files written, counts
  call,        \* a call of one function of the module by a caller: input and value
  _metadata,   \* the function attribute _extract_outline._metadata
  pc,          \* per worker, the position in parse_document_structure
  args,        \* per worker, the arguments of the call (shared objects)
  given,       \* per worker, the arguments as they were first passed
  title,       \* per worker, the local title
  local,       \* per worker, the locals of _extract_outline
  result,      \* per worker, what the call returned or raised
  previous,    \* per worker, the result of the preceding call
  runs         \* per worker, the calls made so far on the document

vars == <<batch, call, _metadata, pc, args, given, title, local, result, previous, runs>>

\* process_pdfs is not running
NoBatch == [pc |-> "none"]

\* no function has been called on its own yet
NoCall == [fn |-> "none"]

NoResult == [raised |-> FALSE, value |-> <<>>, error |-> "pending"]

NoLocals ==
  [metadata |-> NoMetadata, validated_outline |-> <<>>,
   font_headings |-> <<>>, path |-> "none"]

\* line 366: title = _extract_document_title(text_content, pdf_filename)
ExtractTitle(w) ==
  /\ pc[w] = "start"
  /\ title' = [title EXCEPT ![w] =
                 _extract_document_title(args[w].text_content,
                                         args[w].pdf_filename)]
  /\ pc' = [pc EXCEPT ![w] = "titled"]
  /\ UNCHANGED <<batch, call, _metadata, args, given, local, result, previous, runs>>

\* line 369: _extract_outline._metadata = extraction_metadata
StoreMetadata(w) ==
  /\ pc[w] = "titled"
  /\ _metadata' = args[w].extraction_metadata
  /\ pc' = [pc EXCEPT ![w] = "stored"]
  /\ UNCHANGED <<batch, call, args, given, title, local, result, previous, runs>>

\* a call that orders the text blocks of its argument in place
ExtractOutline_InPlace(w) ==
  /\ pc[w] = "stored"
  /\ LET page_texts == args[w].extraction_metadata.page_texts
         path == OutlinePath(_metadata, page_texts)
         r == _extract_outline(args[w].text_content, page_texts, _metadata)
     IN /\ local' = [local EXCEPT ![w] =
                       [metadata |-> _metadata,
                        validated_outline |->
                          ValidatedOutline(_metadata, page_texts),
                        font_headings |->
                          IF path \in {"merged", "font"}
                          THEN FontHeadings(_metadata) ELSE <<>>,
                        path |-> path]]
        /\ result' = [result EXCEPT ![w] =
                        IF r.raised THEN r
                        ELSE Return([title |-> title[w], outline |-> r.value])]
        /\ pc' = [pc EXCEPT ![w] = IF r.raised THEN "raised" ELSE "returned"]
  /\ args' = [args EXCEPT ![w].extraction_metadata.text_blocks =
                StableSort(@, "page_text")]
  /\ UNCHANGED <<batch, call, _metadata, given, title, previous, runs>>

\* lines 370-378: the call of _extract_outline, which reads the function
\* attribute, and the return of {"title", "outline"}; an exception of the
\* call propagates out of parse_document_structure.  The call assigns to
\* no object reachable from its arguments.
ExtractOutline(w) ==
  /\ pc[w] = "stored"
  /\ LET page_texts == args[w].extraction_metadata.page_texts
         path == OutlinePath(_metadata, page_texts)
         r == _extract_outline(args[w].text_content, page_texts, _metadata)
     IN /\ local' = [local EXCEPT ![w] =
                       [metadata |-> _metadata,
                        validated_outline |->
                          ValidatedOutline(_metadata, page_texts),
                        font_headings |->
                          IF path \in {"merged", "font"}
                          THEN FontHeadings(_metadata) ELSE <<>>,
                        path |-> path]]
        /\ result' = [result EXCEPT ![w] =
                        IF r.raised THEN r
                        ELSE Return([title |-> title[w], outline |-> r.value])]
        /\ pc' = [pc EXCEPT ![w] = IF r.raised THEN "raised" ELSE "returned"]
  /\ UNCHANGED <<batch, call, _metadata, args, given, title, previous, runs>>

\* the caller runs parse_document_structure once more on the same arguments
CallAgain(w) ==
  /\ pc[w] \in {"returned", "raised"}
  /\ runs[w] < MaxRuns
  /\ previous' = [previous EXCEPT ![w] = result[w]]
  /\ runs' = [runs EXCEPT ![w] = runs[w] + 1]
  /\ pc' = [pc EXCEPT ![w] = "start"]
  /\ UNCHANGED <<batch, call, _metadata, args, given, title, local, result>>

Next ==
  \E w \in Workers :
     \/ ExtractTitle(w)
     \/ StoreMetadata(w)
     \/ ExtractOutline(w)
     \/ CallAgain(w)

InitCommon ==
  /\ call = NoCall
  /\ _metadata = NoMetadata
  /\ given = args
  /\ title = [w \in Workers |-> <<>>]
  /\ local = [w \in Workers |-> NoLocals]
  /\ result = [w \in Workers |-> NoResult]
  /\ previous = [w \in Workers |-> NoResult]
  /\ runs = [w \in Workers |-> 1]

\* one worker processes one document
Init ==
  /\ batch = NoBatch
  /\ \E d \in Docs : args = [w \in Workers |-> d]
  /\ pc = [w \in Workers |-> IF w = 1 THEN "start" ELSE "idle"]
  /\ InitCommon

Spec == Init /\ [][Next]_vars

\* two workers, each on a document of its own
ParDocs ==
  { MakeDoc(<<>>, <<>>, "pymupdf", ReportPdf),
    MakeDoc(<<BlockPool[1], BlockPool[2]>>, <<>>, "pymupdf", ReportPdf),
    MakeDoc(<<BlockPool[5]>>, <<EntryPool[1]>>, "pymupdf", NotesPdf),
    MakeDoc(<<BlockPool[9], BlockPool[3]>>, <<>>, "pdfplumber", NotesPdf) }

InitPar ==
  /\ batch = NoBatch
  /\ args \in [Workers -> ParDocs]
  /\ args[1] # args[2]
  /\ pc = [w \in Workers |-> "start"]
  /\ InitCommon

SpecPar == InitPar /\ [][Next]_vars

(***************************************************************************)
(* process_pdfs: every PDF of the input directory in turn                  *)
(***************************************************************************)
ScanPdf == <<"s","c","a","n",".","p","d","f">>
PlanPdf == <<"p","l","a","n",".","p","d","f">>

\* the PDFs the input directory can hold, each as what extract_text_from_pdf
\* returns for it: PyMuPDF's result with text blocks, with and without
\* bookmarks; the result of pdfplumber or PyPDF2, which has no text blocks;
\* and ("", 0, {"error": ...}) when every library failed
FilePool ==
  { MakeDoc(<<BlockPool[1], BlockPool[2]>>, <<>>, "pymupdf", ReportPdf),
    MakeDoc(<<BlockPool[5]>>, <<EntryPool[1]>>, "pymupdf", PlanPdf),
    MakeDoc(<<BlockPool[9], BlockPool[3]>>, <<>>, "pdfplumber", NotesPdf),
    MakeDoc(<<>>, <<>>, "pdfplumber", ScanPdf) }

\* bound of the number of PDFs in the input directory
MaxFiles == 2

\* lines 1054-1055 and 1004-1009: the next file of the loop is extracted
\* and handed to parse_document_structure
ProcessSinglePdf ==
  /\ batch.pc = "loop" /\ batch.pdf_files # <<>>
  /\ args' = [args EXCEPT ![1] = Head(batch.pdf_files)]
  /\ given' = [given EXCEPT ![1] = Head(batch.pdf_files)]
  /\ pc' = [pc EXCEPT ![1] = "start"]
  /\ batch' = [batch EXCEPT !.pc = "parsing", !.pdf_files = Tail(@)]
  /\ UNCHANGED <<call, _metadata, title, local, result, previous, runs>>

\* lines 1011-1019 and 1055-1056: the structured data are written to
\* <stem>.json and the file counts as successful
WriteJson ==
  /\ batch.pc = "parsing" /\ pc[1] = "returned"
  /\ batch' = [batch EXCEPT
                 !.pc = "loop",
                 !.written = @ \cup {Stem(args[1].pdf_filename)},
                 !.successful_count = @ + 1]
  /\ pc' = [pc EXCEPT ![1] = "idle"]
  /\ UNCHANGED <<call, _metadata, args, given, title, local, result,
                 previous, runs>>

\* lines 1021-1023 and 1057-1058: the exception is logged, no JSON file is
\* written, and the file counts as failed
CatchFailure ==
  /\ batch.pc = "parsing" /\ pc[1] = "raised"
  /\ batch' = [batch EXCEPT !.pc = "loop", !.failed_count = @ + 1]
  /\ pc' = [pc EXCEPT ![1] = "idle"]
  /\ UNCHANGED <<call, _metadata, args, given, title, local, result,
                 previous, runs>>

\* lines 1043-1045 and 1060-1064: the end of process_pdfs, with exit status
\* 1 if a file failed
BatchExit ==
  /\ batch.pc = "loop" /\ batch.pdf_files = <<>>
  /\ batch' = [batch EXCEPT
                 !.pc = "done",
                 !.exit_status = IF batch.failed_count > 0 THEN 1 ELSE 0]
  /\ UNCHANGED <<call, _metadata, pc, args, given, title, local, result,
                 previous, runs>>

NextBatch ==
  \/ ProcessSinglePdf
  \/ ExtractTitle(1)
  \/ StoreMetadata(1)
  \/ ExtractOutline(1)
  \/ WriteJson
  \/ CatchFailure
  \/ BatchExit

\* lines 1030-1052: the PDFs of the input directory, in the order of glob
InitBatch ==
  /\ \E files \in SeqsUpTo(FilePool, MaxFiles) :
        /\ \A i, j \in 1..Len(files) :
              i # j => files[i].pdf_filename # files[j].pdf_filename
        /\ batch = [pc |-> "loop",
                    input |-> {files[i].pdf_filename : i \in 1..Len(files)},
                    pdf_files |-> files,
                    written |-> {},
                    successful_count |-> 0,
                    failed_count |-> 0,
                    exit_status |-> 0]
  /\ args = [w \in Workers |-> MakeDoc(<<>>, <<>>, "pymupdf", ReportPdf)]
  /\ pc = [w \in Workers |-> "idle"]
  /\ InitCommon

SpecBatch == InitBatch /\ [][NextBatch]_vars

(***************************************************************************)
(* The functions of the module, each called on its own by a caller         *)
(***************************************************************************)
pipeline == <<batch, _metadata, pc, args, given, title, local, result, previous, runs>>

\* the texts of the lines a caller classifies
LevelTexts ==
  { <<"2",".","1"," ","O","v","e","r","v","i","e","w">>,
    <<"1","0",".","2"," ","S","c","o","p","e">>,
    <<"2",".","1",".","1"," ","D","e","t","a","i","l","s">>,
    <<"1","."," ","I","n","t","r","o","d","u","c","t","i","o","n">>,
    <<"R","E","V","I","S","I","O","N"," ","H","I","S","T","O","R","Y">>,
    <<"C","h","a","p","t","e","r"," ","1">>,
    <<"A","c","k","n","o","w","l","e","d","g","e","m","e","n","t","s">>,
    <<"R","e","f","e","r","e","n","c","e","s">>,
    <<"T","a","b","l","e"," ","o","f"," ","C","o","n","t","e","n","t","s">>,
    <<"a",")"," ","f","i","r","s","t"," ","p","o","i","n","t"," ","h","e","r","e">>,
    <<"P","r","o","j","e","c","t"," ","P","l","a","n"," ","S","u","m","m","a","r","y">>,
    <<"T","h","i","s"," ","i","s"," ","t","h","e"," ","b","o","d","y"," ","t","e","x","t"," ","o","f"," ","t","h","e"," ","p","a","g","e",".">> }

FontSizes == {10, 12, 14, 16, 18}

\* _determine_heading_level_advanced(text, block) for the stripped text of
\* a block
CallDetermineLevel ==
  /\ call = NoCall
  /\ \E text \in LevelTexts, size \in FontSizes, is_bold \in BOOLEAN :
        LET block == Block(text, 1, 300, 150, size, is_bold)
        IN call' = [fn |-> "_determine_heading_level_advanced",
                    text |-> text, block |-> block,
                    value |-> _determine_heading_level_advanced(text, block)]
  /\ UNCHANGED pipeline

\* the headings the classifier makes of a few lines, on either of two pages
RepairTexts ==
  { <<"1","."," ","I","n","t","r","o","d","u","c","t","i","o","n">>,
    <<"2",".","1"," ","O","v","e","r","v","i","e","w">>,
    <<"2",".","1",".","1"," ","D","e","t","a","i","l","s">>,
    <<"a",")"," ","f","i","r","s","t"," ","p","o","i","n","t"," ","h","e","r","e">>,
    <<"T","h","i","s"," ","i","s"," ","t","h","e"," ","b","o","d","y"," ","t","e","x","t"," ","o","f"," ","t","h","e"," ","p","a","g","e",".">> }

ClassifiedHeadings ==
  { Heading(_determine_heading_level_advanced(
               text, Block(text, page, 300, 150, size, is_bold)),
            text, page) :
      text \in RepairTexts, page \in {1, 2},
      size \in FontSizes, is_bold \in BOOLEAN }

\* bound of the lists of headings handed to the hierarchy repair
MaxHeadings == 2

\* _apply_hierarchy_consistency(headings), and once more on what it returned
CallApplyHierarchy ==
  /\ call = NoCall
  /\ \E headings \in SeqsUpTo(ClassifiedHeadings, MaxHeadings) :
        LET value == _apply_hierarchy_consistency(headings)
        IN call' = [fn |-> "_apply_hierarchy_consistency",
                    headings |-> headings,
                    value |-> value,
                    again |-> _apply_hierarchy_consistency(value)]
  /\ UNCHANGED pipeline

\* the candidates a caller hands to the filter: the lines "1. Topic",
\* "2. Topic", ... of one page, the third line being the short text
\* "Page 3" in one of a few styles (y0, size, bold), each with a score
FilterScores == {45000, 62000, 80000}

FooterStyles == {<<30, 10, FALSE>>, <<300, 18, TRUE>>, <<750, 12, TRUE>>}

CandidateBlock(i, style) ==
  IF i = 3 THEN Block(<<"P","a","g","e"," ","3">>, 1, style[1], 40, style[2], style[3])
  ELSE Block(Digits(i) \o Topic, 1, 200 + 40 * i, 150, 14, TRUE)

\* bound of the number of candidates
MaxCandidates == 6

\* _filter_and_classify_headings(scored_blocks), with its local threshold
CallFilter ==
  /\ call = NoCall
  /\ \E n \in 1..MaxCandidates, style \in FooterStyles :
        \E score \in [1..n -> FilterScores] :
           LET scored_blocks ==
                 [i \in 1..n |-> [block |-> CandidateBlock(i, style),
                                  score |-> score[i]]]
               sorted == StableSort(scored_blocks, "score_desc")
               scores == [i \in 1..n |-> sorted[i].score]
           IN call' = [fn |-> "_filter_and_classify_headings",
                       scored_blocks |-> scored_blocks,
                       threshold |-> _calculate_dynamic_threshold(scores),
                       value |-> _filter_and_classify_headings(scored_blocks)]
  /\ UNCHANGED pipeline

\* the lines of the first page of a document whose title a caller extracts
TitleLines ==
  { <<"a","n"," ","o","v","e","r","v","i","e","w"," ","o","f"," ","p","r","o","j","e","c","t"," ","p","l","a","n","s">>,
    <<"P","r","o","j","e","c","t"," ","P","l","a","n","n","i","n","g"," ","G","u","i","d","e">>,
    <<"O","v","e","r","v","i","e","w">>,
    <<"P","r","o","j","e","c","t"," ","P","l","a","n"," ","S","u","m","m","a","r","y">>,
    <<"2",".","1"," ","O","v","e","r","v","i","e","w">>,
    <<"D","e","s","i","g","n"," ","D","o","c","u","m","e","n","t"," ","D","r","a","f","t">>,
    <<"t","h","e"," ","h","a","c","k","a","t","h","o","n"," ","c","h","a","l","l","e","n","g","e">>,
    <<"G","u","i","d","e">> }

\* bound of the number of lines of that page
MaxLines == 2

\* _extract_document_title(text_content, pdf_filename) on the text of a
\* one-page document (of no page, for no line)
CallExtractTitle ==
  /\ call = NoCall
  /\ \E lines \in SeqsUpTo(TitleLines, MaxLines) :
        LET page_text == Concat([k \in 1..Len(lines) |-> lines[k] \o <<"\n">>])
            text_content == TextContent(IF lines = <<>> THEN <<>>
                                        ELSE <<page_text>>)
        IN call' = [fn |-> "_extract_document_title",
                    lines |-> lines,
                    text_content |-> text_content,
                    pdf_filename |-> NotesPdf,
                    value |-> _extract_document_title(text_content, NotesPdf)]
  /\ UNCHANGED pipeline

\* f"H{min(level, 3)}"
LevelName(level) ==
  IF level <= 1 THEN "H1" ELSE IF level = 2 THEN "H2" ELSE "H3"

\* an extractor that keeps the bookmarks whose title is blank
_extract_pdf_outline_KeepBlank(toc) ==
  [k \in 1..Len(toc) |->
     Heading(LevelName(toc[k].level), Strip(toc[k].title), toc[k].page)]

\* _extract_pdf_outline: the entries (level, title, page) of doc.get_toc()
\* with a title that is not blank
_extract_pdf_outline(toc) ==
  LET kept == SelectSeq(toc, LAMBDA t : Strip(t.title) # <<>>)
  IN [k \in 1..Len(kept) |->
        Heading(LevelName(kept[k].level), Strip(kept[k].title), kept[k].page)]

\* the bookmarks doc.get_toc() can list for a document of two pages: well
\* formed ones, ones with a blank title, ones that point at no page of the
\* document (-1 is a bookmark without destination)
TocPool ==
  { [level |-> 1, title |-> <<"P","r","o","j","e","c","t"," ","P","l","a","n"," ","S","u","m","m","a","r","y">>, page |-> 2],
    [level |-> 4, title |-> <<" ","O","v","e","r","v","i","e","w"," ">>, page |-> 1],
    [level |-> 2, title |-> <<" ", " ">>, page |-> 1],
    [level |-> 1, title |-> <<>>, page |-> 2],
    [level |-> 1, title |-> <<"O","v","e","r","v","i","e","w">>, page |-> 3],
    [level |-> 2, title |-> <<"O","v","e","r","v","i","e","w">>, page |-> -1] }

\* bound of the number of bookmarks
MaxToc == 2

\* what _extract_with_pymupdf and then _extract_outline make of a document
\* with the lines '2.1 Overview' (page 1) and 'Project Plan Summary'
\* (page 2) and the bookmarks toc
OutlineOfToc(toc) ==
  LET d == MakeDoc(<<BlockPool[2], BlockPool[5]>>, _extract_pdf_outline(toc),
                   "pymupdf", ReportPdf)
  IN _extract_outline(d.text_content, d.extraction_metadata.page_texts,
                      d.extraction_metadata)

CallOutlineOfToc ==
  /\ call = NoCall
  /\ \E toc \in SeqsUpTo(TocPool, MaxToc) :
        call' = [fn |-> "_extract_pdf_outline", toc |-> toc,
                 page_count |-> 2,
                 pdf_outline |-> _extract_pdf_outline(toc),
                 value |-> OutlineOfToc(toc)]
  /\ UNCHANGED pipeline

\* the text blocks a caller hands to the heading detection: headings, body
\* text, lines with a blank or one-character text, and a line that stands
\* both in the header area of page 1 and in the body of page 2
DetectPool ==
  { Block(<<"P","r","o","j","e","c","t"," ","P","l","a","n"," ","S","u","m","m","a","r","y",":">>, 1, 300, 180, 14, TRUE),
    Block(<<"1","."," ","I","N","T","R","O","D","U","C","T","I","O","N">>, 1, 100, 150, 24, TRUE),
    Block(<<>>, 1, 300, 0, 18, TRUE),
    Block(<<" ", " ">>, 1, 300, 10, 18, TRUE),
    Block(<<"A">>, 1, 300, 10, 18, TRUE),
    BlockPool[2],
    BlockPool[9],
    Block(BlockPool[5].text, 1, 30, 180, 14, TRUE),
    BlockPool[5] }

\* bound of the number of text blocks
MaxDetect == 3

\* _detect_headings_from_blocks(text_blocks), with the score of every block,
\* the candidates it hands to the filter and the threshold of the filter
CallDetectHeadings ==
  /\ call = NoCall
  /\ \E text_blocks \in SeqsUpTo(DetectPool, MaxDetect) :
        LET font_stats == _calculate_font_statistics(text_blocks)
        IN call' = [fn |-> "_detect_headings_from_blocks",
                    text_blocks |-> text_blocks,
                    scores |-> [i \in 1..Len(text_blocks) |->
                                  _calculate_heading_score(text_blocks[i],
                                                           font_stats)],
                    scored_blocks |-> ScoredBlocks(text_blocks),
                    threshold |->
                      LET sorted == StableSort(ScoredBlocks(text_blocks),
                                               "score_desc")
                      IN _calculate_dynamic_threshold(
                           [i \in 1..Len(sorted) |-> sorted[i].score]),
                    value |-> _detect_headings_from_blocks(text_blocks)]
  /\ UNCHANGED pipeline

\* the validated bookmarks and the font-based headings a caller merges
MergeEntries ==
  { Heading("H1", <<"P","r","o","j","e","c","t"," ","P","l","a","n"," ","S","u","m","m","a","r","y"," ","R","e","p","o","r","t">>, 2),
    Heading("H2", <<"D","e","t","a","i","l","s">>, 2) }

MergeFonts ==
  { Heading("H2", <<"P","r","o","j","e","c","t"," ","P","l","a","n"," ","S","u","m","m","a","r","y"," ","D","r","a","f","t">>, 2),
    Heading("H2", <<"P","r","o","j","e","c","t"," ","P","l","a","n"," ","S","u","m","m","a","r","y">>, 3),
    Heading("H1", <<"P","R","O","J","E","C","T"," ","P","L","A","N"," ","S","U","M","M","A","R","Y"," ","R","E","P","O","R","T">>, 1),
    Heading("H2", <<"P","r","o","j","e","c","t"," ","P","l","a","n"," ","S","u","m","m","a","r","y"," ","R","e","p","o","r","t">>, 4),
    Heading("H3", <<"2",".","1",".","1"," ","D","e","t","a","i","l","s">>, 2) }

\* bound of the lengths of the two lists
MaxMerge == 2

\* _merge_outline_and_font_headings(outline_headings, font_headings)
CallMerge ==
  /\ call = NoCall
  /\ \E outline_headings \in SeqsUpTo(MergeEntries, MaxMerge),
        font_headings \in SeqsUpTo(MergeFonts, MaxMerge) :
        /\ outline_headings # <<>>
        /\ call' = [fn |-> "_merge_outline_and_font_headings",
                    outline_headings |-> outline_headings,
                    font_headings |-> font_headings,
                    value |-> _merge_outline_and_font_headings(
                                 outline_headings, font_headings)]
  /\ UNCHANGED pipeline

\* lines 72-100: the libraries in the order extract_text_from_pdf tries them
Libraries == <<"pymupdf", "pdfplumber", "pypdf2">>

\* what _extract_with_pymupdf, _extract_with_pdfplumber and
\* _extract_with_pypdf2 return for a file they can read: the text, the page
\* count and the metadata, which carry text blocks and bookmarks for
\* PyMuPDF only
ExtractWith(lib, file) ==
  LET doc == MakeDoc(file.text_blocks, file.pdf_outline,
                     IF lib = "pymupdf" THEN "pymupdf" ELSE "pdfplumber",
                     file.name)
  IN [text_content |-> doc.text_content,
      page_count |-> doc.page_count,
      metadata |-> [extraction_method |-> lib,
                    page_texts |-> doc.extraction_metadata.page_texts,
                    text_blocks |-> doc.extraction_metadata.text_blocks,
                    pdf_outline |-> doc.extraction_metadata.pdf_outline]]

\* a fallback chain that tries the libraries in the order of their
\* availability flags (lines 46-62): PyPDF2 before pdfplumber
RECURSIVE TryLibraries_FlagOrder(_, _, _, _, _)
TryLibraries_FlagOrder(libs, file, available, failing, attempted) ==
  LET order == <<"pymupdf", "pypdf2", "pdfplumber">>
      todo == SelectSeq(order, LAMBDA l : l \in Range(libs))
  IN IF todo = <<>>
     THEN [attempted |-> attempted,
           result |-> Return([text_content |-> <<>>, page_count |-> 0,
                              metadata |-> [error |-> "All libraries failed"]])]
     ELSE LET lib == todo[1]
              rest == SelectSeq(libs, LAMBDA l : l # lib)
          IN IF ~available[lib]
             THEN TryLibraries_FlagOrder(rest, file, available, failing,
                                         attempted)
             ELSE IF lib \in failing
             THEN TryLibraries_FlagOrder(rest, file, available, failing,
                                         Append(attempted, lib))
             ELSE [attempted |-> Append(attempted, lib),
                   result |-> Return(ExtractWith(lib, file))]

\* lines 82-103: each available library in turn, inside its own try; the
\* first that does not raise returns, and after the last one the error
\* triple is returned.  attempted lists the libraries that were called
RECURSIVE TryLibraries(_, _, _, _, _)
TryLibraries(libs, file, available, failing, attempted) ==
  IF libs = <<>>
  THEN [attempted |-> attempted,
        result |-> Return([text_content |-> <<>>, page_count |-> 0,
                           metadata |-> [error |-> "All libraries failed"]])]
  ELSE LET lib == libs[1]
       IN IF ~available[lib]
          THEN TryLibraries(Tail(libs), file, available, failing, attempted)
          ELSE IF lib \in failing
          THEN TryLibraries(Tail(libs), file, available, failing,
                            Append(attempted, lib))
          ELSE [attempted |-> Append(attempted, lib),
                result |-> Return(ExtractWith(lib, file))]

\* lines 78-108: pdf_path.name is read inside the outer try, so a pdf_path
\* that is not a Path ends in the outer handler, which returns the error
\* triple with the message of the exception
extract_text_from_pdf(file, available, failing) ==
  IF ~file.is_path
  THEN [attempted |-> <<>>,
        result |-> Return([text_content |-> <<>>, page_count |-> 0,
                           metadata |-> [error |-> "AttributeError"]])]
  ELSE TryLibraries(Libraries, file, available, failing, <<>>)

\* extract_text_from_pdf(pdf_path) on a file with or without bookmarks, the
\* path given as a Path or as a str, for every set of installed libraries
\* and every set of libraries that raise on the file
CallExtractText ==
  /\ call = NoCall
  /\ \E pdf_outline \in {<<>>, <<EntryPool[1]>>}, is_path \in BOOLEAN,
        available \in [Range(Libraries) -> BOOLEAN],
        failing \in SUBSET Range(Libraries) :
        LET file == [name |-> PlanPdf, is_path |-> is_path,
                     text_blocks |-> <<BlockPool[5]>>,
                     pdf_outline |-> pdf_outline]
            done == extract_text_from_pdf(file, available, failing)
        IN call' = [fn |-> "extract_text_from_pdf",
                    file |-> file, available |-> available,
                    failing |-> failing,
                    attempted |-> done.attempted,
                    result |-> done.result]
  /\ UNCHANGED pipeline

NextCalls ==
  \/ CallExtractText
  \/ CallDetermineLevel
  \/ CallApplyHierarchy
  \/ CallFilter
  \/ CallExtractTitle
  \/ CallOutlineOfToc
  \/ CallDetectHeadings
  \/ CallMerge

\* no document is being processed; the functions are called one by one
InitCalls ==
  /\ batch = NoBatch
  /\ args = [w \in Workers |-> MakeDoc(<<>>, <<>>, "pymupdf", ReportPdf)]
  /\ pc = [w \in Workers |-> "idle"]
  /\ InitCommon

SpecCalls == InitCalls /\ [][NextCalls]_vars

(***************************************************************************)
(* Properties                                                              *)
(***************************************************************************)
Finished(w) == pc[w] \in {"returned", "raised"}

LevelNum(level) ==
  CASE level = "H1" -> 1 [] level = "H2" -> 2 [] level = "H3" -> 3

\* C1: in the outline a call returns, on every path, no heading lies more
\* than one level below the heading right before it
C1_HierarchyInvariant ==
  \A w \in Workers :
     pc[w] = "returned" =>
       LET outline == result[w].value.outline
       IN \A i \in 1..(Len(outline) - 1) :
             LevelNum(outline[i + 1].level) - LevelNum(outline[i].level) <= 1

\* C2: of the headings _filter_and_classify_headings accepts, no page owns
\* more than 8
C2_PerPageCap ==
  \A w \in Workers :
     Finished(w) /\ local[w].path \in {"font", "merged"} =>
       LET headings == local[w].font_headings
       IN \A i \in 1..Len(headings) :
             PageCount(headings, headings[i].page) <= 8

\* lowercased, runs of whitespace collapsed, ends trimmed
NormalizedText(text) == JoinSpace(Split(Lower_(text)))

\* C3: any two distinct headings of the accepted outline differ in their
\* normalized texts
C3_Deduplication ==
  \A w \in Workers :
     Finished(w) /\ local[w].path \in {"font", "merged"} =>
       LET headings == local[w].font_headings
       IN \A i, j \in 1..Len(headings) :
             i # j => NormalizedText(headings[i].text)
                        # NormalizedText(headings[j].text)

\* the place in the input where the text block of a heading was discovered
Appearance(heading, text_blocks) ==
  LET found == {i \in 1..Len(text_blocks) :
                  /\ Strip(text_blocks[i].text) = heading.text
                  /\ text_blocks[i].page = heading.page}
  IN CHOOSE i \in found : \A m \in found : i <= m

\* C4: the outline is emitted in page order and, within a page, in the
\* order in which the text blocks appear in the input
C4_EmissionOrder ==
  \A w \in Workers :
     pc[w] = "returned" /\ local[w].path = "font" =>
       LET outline == result[w].value.outline
           text_blocks == local[w].metadata.text_blocks
       IN \A i \in 1..(Len(outline) - 1) :
             \/ outline[i].page < outline[i + 1].page
             \/ /\ outline[i].page = outline[i + 1].page
                /\ Appearance(outline[i], text_blocks)
                     < Appearance(outline[i + 1], text_blocks)

\* C5: when an external outline is supplied and fewer than 10 of its
\* entries validate, the outline the call returns holds every validated
\* entry, whatever the text blocks
C5_ValidatedKept ==
  \A w \in Workers :
     /\ pc[w] = "returned"
     /\ local[w].validated_outline # <<>>
     /\ Len(local[w].validated_outline) < 10
     => \A k \in 1..Len(local[w].validated_outline) :
           local[w].validated_outline[k] \in Range(result[w].value.outline)

\* a heading that an external entry covers: similar text, same or adjacent
\* page
Covers(entry, heading) ==
  /\ _similar_text(heading.text, entry.text)
  /\ heading.page - entry.page \in {-1, 0, 1}

CoveredBy(entry, headings) ==
  {i \in 1..Len(headings) : Covers(entry, headings[i])}

AloneResult(a) ==
  LET r == _extract_outline(a.text_content,
                            a.extraction_metadata.page_texts,
                            a.extraction_metadata)
  IN IF r.raised THEN r
     ELSE Return([title |-> _extract_document_title(a.text_content,
                                                    a.pdf_filename),
                  outline |-> r.value])

\* C7: whatever the interleaving of two calls on two documents, a call
\* returns the outline it returns when its document is processed alone
C7_NoCrossCallState ==
  \A w \in Workers :
     pc[w] = "returned" /\ ~AloneResult(args[w]).raised =>
       result[w].value.outline = AloneResult(args[w]).value.outline

\* C8: for a document without text and without text blocks the call
\* returns the title 'Document from <stem>' and an empty outline
C8_DegenerateInput ==
  \A w \in Workers :
     /\ Finished(w)
     /\ args[w].text_content = <<>>
     /\ args[w].extraction_metadata.text_blocks = <<>>
     => /\ pc[w] = "returned"
        /\ result[w].value =
             [title |-> DocumentFrom \o Stem(args[w].pdf_filename),
              outline |-> <<>>]

\* C9: without text blocks in the metadata the regex path runs over the
\* page sections of a text and returns, without raising, a list of headings
\* {level in H1..H3, text, page}
C9_FallbackMode ==
  \A w \in Workers :
     /\ Finished(w)
     /\ local[w].path = "fallback"
     /\ args[w].text_content # <<>>
     => /\ pc[w] = "returned"
        /\ \A h \in Range(result[w].value.outline) :
              /\ DOMAIN h = {"level", "text", "page"}
              /\ h.level \in {"H1", "H2", "H3"}

C11_NumberingPrecedence ==
  /\ call.fn = "_determine_heading_level_advanced" /\ ReNN(call.text)
       => call.value = "H2"
  /\ call.fn = "_apply_hierarchy_consistency" =>
       \A i \in 1..Len(call.headings) :
          ReNN(call.headings[i].text) /\ call.headings[i].level = "H2"
            => call.headings[i] \in Range(call.value)

\* C11 happens: an 'N.N <title>' line in a large bold font, which the font
\* rule alone would make H1, was classified; and one was repaired right
\* after an H1
C11_Witness ==
  \/ /\ call.fn = "_determine_heading_level_advanced"
     /\ ReNN(call.text)
     /\ call.block.size > 16 /\ call.block.is_bold
  \/ /\ call.fn = "_apply_hierarchy_consistency"
     /\ Len(call.value) = 2
     /\ call.value[1].level = "H1"
     /\ ReNN(call.value[2].text)

Acknowledgements == <<"A","c","k","n","o","w","l","e","d","g","e","m","e","n","t","s">>
References == <<"R","e","f","e","r","e","n","c","e","s">>

\* an ALL-CAPS long line: upper-case letters and spaces, 9 characters or more
AllCapsLongLine(text) ==
  /\ Len(text) >= 9
  /\ \A i \in 1..Len(text) : text[i] \in Upper \cup {" "}
  /\ text[1] \in Upper

\* C12: the level classifier returns H3 for 'N.N.N ' texts, H2 for 'N.N '
\* texts, and H1 for 'N. ' texts, ALL-CAPS long lines, 'Chapter N' and the
\* named sections Acknowledgements and References, whatever the font
C12_PatternTables ==
  call.fn = "_determine_heading_level_advanced" =>
    /\ ReNNN(call.text) => call.value = "H3"
    /\ ReNN(call.text) => call.value = "H2"
    /\ ReN(call.text) => call.value = "H1"
    /\ AllCapsLongLine(call.text) => call.value = "H1"
    /\ ReChapter(call.text) => call.value = "H1"
    /\ call.text \in {Acknowledgements, References} => call.value = "H1"

\* a text of at most two words that does not begin with digits and a dot
ShortUnnumbered(text) ==
  /\ Len(Split(text)) <= 2
  /\ ~(\E k \in 1..(Len(text) - 1) :
          /\ \A i \in 1..k : text[i] \in Digit
          /\ text[k + 1] = ".")

\* C13: no heading the filter accepts has a text of at most two words that
\* does not begin with a numbered-list prefix, whatever the position, the
\* font and the score of its block
C13_ShortTextSuppression ==
  call.fn = "_filter_and_classify_headings" =>
    \A h \in Range(call.value) : ~ShortUnnumbered(h.text)

\* C13 happens: 'Page 3' stood in the middle of a page in a large bold
\* font, with a score that passes the threshold, among accepted headings
C13_Witness ==
  /\ call.fn = "_filter_and_classify_headings"
  /\ Len(call.scored_blocks) >= 3
  /\ ShortUnnumbered(call.scored_blocks[3].block.text)
  /\ call.scored_blocks[3].block.bbox[2] = 300
  /\ call.scored_blocks[3].score >= call.threshold
  /\ call.value # <<>>

\* the k-th largest (k = 0 for the largest) of a list of scores
KthLargest(scores, k) ==
  CHOOSE x \in Range(scores) :
     /\ Cardinality({i \in 1..Len(scores) : scores[i] > x}) <= k
     /\ Cardinality({i \in 1..Len(scores) : scores[i] >= x}) > k

\* the threshold for a list of candidate scores: clamp(scores_sorted_desc[
\* floor(count / 4)], 0.5, 0.7) for 6 or more, max(0.3, top x 0.6) below
AdaptiveThreshold(scores) ==
  LET count == Len(scores)
  IN IF count >= 6
     THEN LET q == KthLargest(scores, count \div 4)
          IN IF q < 50000 THEN 50000 ELSE IF q > 70000 THEN 70000 ELSE q
     ELSE LET low == (KthLargest(scores, 0) * 6) \div 10
          IN IF low < 30000 THEN 30000 ELSE low

\* C14: the threshold of the filter is the adaptive threshold of the
\* candidate scores, and the filter drops exactly the candidates that score
\* strictly below it (among numbered lines, which no other rule drops)
C14_AdaptiveThreshold ==
  call.fn = "_filter_and_classify_headings" =>
    LET n == Len(call.scored_blocks)
        scores == [i \in 1..n |-> call.scored_blocks[i].score]
        threshold == AdaptiveThreshold(scores)
    IN /\ call.threshold = threshold
       /\ \A i \in 1..n :
             ~ShortUnnumbered(call.scored_blocks[i].block.text) =>
               ((\E h \in Range(call.value) :
                    h.text = call.scored_blocks[i].block.text)
                <=> call.scored_blocks[i].score >= threshold)

\* C14 happens: of 6 or more candidates, with a quartile score inside
\* (0.5, 0.7), one was dropped below the threshold and one at the threshold
\* was kept
C14_Witness ==
  /\ call.fn = "_filter_and_classify_headings"
  /\ Len(call.scored_blocks) >= 6
  /\ call.threshold = 62000
  /\ \E i, j \in 1..Len(call.scored_blocks) :
        /\ call.scored_blocks[i].score < call.threshold
        /\ call.scored_blocks[j].score = call.threshold
        /\ \E h \in Range(call.value) :
              h.text = call.scored_blocks[j].block.text

\* the first of a set of positions
First(positions) == CHOOSE k \in positions : \A m \in positions : k <= m

\* C15: the title is the first line of titled-text shape that holds a hint
\* word; only when no line is of that kind, the first line of length 10 to
\* 100 that holds a hint word; only when there is neither, 'Document from
\* <stem>' (page markers and boilerplate lines skipped)
C15_TitlePrecedence ==
  call.fn = "_extract_document_title" =>
    LET lines == SelectSeq(call.lines,
                   LAMBDA l : /\ ~RePageMarkerLine(l)
                              /\ Lower_(l) \notin title_boilerplate)
        shaped == {k \in 1..Len(lines) :
                     /\ ReTitleShape(lines[k])
                     /\ \E w \in title_hints : Contains(Lower_(lines[k]), w)}
        plain == {k \in 1..Len(lines) :
                    /\ Len(lines[k]) >= 10 /\ Len(lines[k]) <= 100
                    /\ \E w \in title_indicators :
                          Contains(Lower_(lines[k]), w)}
    IN call.value =
         IF shaped # {} THEN lines[First(shaped)]
         ELSE IF plain # {} THEN lines[First(plain)]
         ELSE DocumentFrom \o Stem(call.pdf_filename)

\* a bookmark with a blank title, or with a page that is none of the pages
\* 1..page_count
Malformed(t, page_count) ==
  \/ \A i \in 1..Len(t.title) : t.title[i] \in Space
  \/ t.page < 1 \/ t.page > page_count

\* C16: a malformed bookmark does not show in the outline (no heading has
\* its page and its trimmed title), and its presence raises no error: the
\* outline is the one of the same document without the malformed bookmarks
C16_MalformedDropped ==
  call.fn = "_extract_pdf_outline" =>
    LET well_formed == SelectSeq(call.toc,
                         LAMBDA t : ~Malformed(t, call.page_count))
    IN /\ ~call.value.raised
       /\ call.value = OutlineOfToc(well_formed)
       /\ \A k \in 1..Len(call.toc) :
             Malformed(call.toc[k], call.page_count) =>
               /\ call.toc[k] \notin Range(well_formed)
               /\ \A h \in Range(call.value.value) :
                     ~(/\ h.page = call.toc[k].page
                       /\ h.text = Strip(call.toc[k].title))

\* C16 happens: a malformed bookmark was listed next to a bookmark that
\* made it into the outline
C16_Witness ==
  /\ call.fn = "_extract_pdf_outline"
  /\ \E k \in 1..Len(call.toc) :
        Malformed(call.toc[k], call.page_count)
  /\ \E k \in 1..Len(call.toc) :
        /\ ~Malformed(call.toc[k], call.page_count)
        /\ \E h \in Range(call.value.value) :
              h.text = Strip(call.toc[k].title) /\ h.page = call.toc[k].page

\* C17: the text of every heading of the outline is non-empty, neither
\* begins nor ends with whitespace, and does not end with a colon
C17_HeadingTextShape ==
  call.fn = "_detect_headings_from_blocks" =>
    \A h \in Range(call.value) :
       /\ h.text # <<>>
       /\ h.text[1] \notin Space
       /\ h.text[Len(h.text)] \notin Space
       /\ h.text[Len(h.text)] # ":"

\* a text that is empty, blank, or shorter than 2 characters
TooShort(text) ==
  \/ Len(text) < 2
  \/ \A i \in 1..Len(text) : text[i] \in Space

\* C19: every candidate handed to the filter has a score within [0, 1];
\* a block with an empty, blank or one-character text scores 0 and is no
\* candidate
C19_ScoreRange ==
  call.fn = "_detect_headings_from_blocks" =>
    /\ \A c \in Range(call.scored_blocks) : c.score >= 0 /\ c.score <= Unit
    /\ \A i \in 1..Len(call.text_blocks) :
          TooShort(call.text_blocks[i].text) =>
            /\ call.scores[i] = 0
            /\ \A c \in Range(call.scored_blocks) :
                  c.block # call.text_blocks[i]

\* C19 happens: a large bold one-character line stood next to a line that
\* became a candidate with a score above 0.8
C19_Witness ==
  /\ call.fn = "_detect_headings_from_blocks"
  /\ \E i \in 1..Len(call.text_blocks) :
        /\ Len(call.text_blocks[i].text) = 1
        /\ call.text_blocks[i].is_bold
  /\ \E c \in Range(call.scored_blocks) : 5 * c.score > 4 * Unit

\* similar texts: normalized-equal, one a substring of the other, or a
\* word-set overlap of at least 60%
SimilarTexts(a, b) ==
  LET x == Strip(DropPunct(Lower_(a)))
      y == Strip(DropPunct(Lower_(b)))
      wx == Range(Split(x))
      wy == Range(Split(y))
  IN \/ x = y
     \/ Contains(x, y) \/ Contains(y, x)
     \/ /\ wx # {} /\ wy # {}
        /\ 10 * Cardinality(wx \cap wy) >= 6 * Cardinality(wx \cup wy)

\* C18: the merge adds a font-based heading if and only if no external
\* entry on the same or an adjacent page has a similar text
C18_MergeRule ==
  call.fn = "_merge_outline_and_font_headings" =>
    \A f \in Range(call.font_headings) :
       f \in Range(call.value)
         <=> ~(\E e \in Range(call.outline_headings) :
                  /\ AbsDiff(f.page, e.page) <= 1
                  /\ SimilarTexts(f.text, e.text))

\* C20: when process_pdfs ends, the output directory holds <stem>.json for
\* every <stem>.pdf of the input directory, whatever text extraction made
\* of the file
C20_OneJsonPerPdf ==
  batch.pc = "done" =>
    \A name \in batch.input : Stem(name) \in batch.written

\* the headings of a list lie in (page, text) order
InPageTextOrder(headings) ==
  \A i, j \in 1..Len(headings) :
     i < j => ~PageTextBefore(headings[j], headings[i])

\* the ways to arrange n headings
Arrangements(n) ==
  {p \in [1..n -> 1..n] : \A a, b \in 1..n : p[a] = p[b] => a = b}

C23_RepairFrame ==
  call.fn = "_apply_hierarchy_consistency" =>
    LET before == call.headings
        after == call.value
    IN /\ Len(after) = Len(before)
       /\ \E p \in Arrangements(Len(before)) :
             \A i \in 1..Len(before) :
                /\ after[p[i]].text = before[i].text
                /\ after[p[i]].page = before[i].page
                /\ \/ after[p[i]].level = before[i].level
                   \/ before[i].level = "H3" /\ after[p[i]].level = "H2"
       /\ call.again = after

\* C23 happens: an H3 handed over together with an H1 was promoted to H2
\* right after the H1, which kept its level, and the list was repaired a
\* second time
C23_Witness ==
  /\ call.fn = "_apply_hierarchy_consistency"
  /\ Len(call.value) = 2
  /\ call.value[1].level = "H1" /\ call.value[2].level = "H2"
  /\ \E i \in 1..2 : /\ call.headings[i].level = "H3"
                     /\ call.headings[i].text = call.value[2].text
  /\ call.again = call.value

\* the place of a library in the order PyMuPDF, pdfplumber, PyPDF2
Rank(lib) ==
  CASE lib = "pymupdf" -> 1 [] lib = "pdfplumber" -> 2 [] lib = "pypdf2" -> 3

\* C22: extract_text_from_pdf calls installed libraries only, in the order
\* PyMuPDF, pdfplumber, PyPDF2, each only after every installed library
\* before it raised; it returns what the first installed library that does
\* not raise returns, and the triple ('', 0, {'error': ...}) when there is
\* none; it never raises
C22_FallbackChain ==
  call.fn = "extract_text_from_pdf" =>
    LET attempted == call.attempted
        installed == {l \in DOMAIN call.available : call.available[l]}
        working == installed \ call.failing
        value == call.result.value
    IN /\ ~call.result.raised
       /\ \A i \in 1..Len(attempted) :
             /\ attempted[i] \in installed
             /\ \A l \in installed :
                   Rank(l) < Rank(attempted[i])
                     => /\ l \in call.failing
                        /\ \E j \in 1..(i - 1) : attempted[j] = l
       /\ call.file.is_path /\ working # {} =>
            LET first == CHOOSE l \in working :
                            \A m \in working : Rank(l) <= Rank(m)
            IN /\ attempted[Len(attempted)] = first
               /\ value.metadata.extraction_method = first
               /\ value.page_count > 0
               /\ value.text_content # <<>>
               /\ (value.metadata.text_blocks # <<>>) = (first = "pymupdf")
       /\ ~call.file.is_path \/ working = {} =>
            /\ value.text_content = <<>>
            /\ value.page_count = 0
            /\ DOMAIN value.metadata = {"error"}
       /\ call.file.is_path /\ working = {} =>
            Len(attempted) = Cardinality(installed)

\* C22 happens: all three libraries are installed, PyMuPDF and pdfplumber
\* raised on the file and PyPDF2 read it
C22_Witness ==
  /\ call.fn = "extract_text_from_pdf"
  /\ call.attempted = <<"pymupdf", "pdfplumber", "pypdf2">>
  /\ call.failing = {"pymupdf", "pdfplumber"}
  /\ call.result.value.metadata.extraction_method = "pypdf2"

\* the highest score of the candidates handed to the filter
TopScore(scored_blocks) ==
  CHOOSE x \in {scored_blocks[i].score : i \in 1..Len(scored_blocks)} :
     \A i \in 1..Len(scored_blocks) : scored_blocks[i].score <= x

\* C24 as stated: of a non-empty list of candidates, each with a score
\* above 0.3, at least one has a score greater than or equal to the
\* threshold, for lists of 1-5 and of 6 or more candidates alike
C24_ThresholdNeverRejectsAll ==
  call.fn = "_filter_and_classify_headings" =>
    \E i \in 1..Len(call.scored_blocks) :
       call.scored_blocks[i].score >= call.threshold

\* C24 as amended: of 1-5 candidates, each with a score above 0.3, the
\* highest-scoring one meets the threshold; of 6 or more candidates some
\* candidate meets the threshold exactly when the highest score is at least
\* 0.5, and six or more candidates that all score below 0.5 are all rejected
C24_ThresholdKeepsTop ==
  call.fn = "_filter_and_classify_headings" =>
    LET n == Len(call.scored_blocks)
        top == TopScore(call.scored_blocks)
        some == \E i \in 1..n : call.scored_blocks[i].score >= call.threshold
    IN /\ \A i \in 1..n : call.scored_blocks[i].score > 30000
       /\ n <= 5 => top >= call.threshold
       /\ n >= 6 => (some <=> top >= 50000)
       /\ n >= 6 /\ top < 50000 => call.value = <<>>

\* C24 happens: six candidates that all score 0.45 were filtered with the
\* threshold 0.5 and none was accepted
C24_Witness ==
  /\ call.fn = "_filter_and_classify_headings"
  /\ Len(call.scored_blocks) = 6
  /\ TopScore(call.scored_blocks) = 45000
  /\ call.threshold = 50000
  /\ call.value = <<>>

\* the lowercased, trimmed text by which the filter recognises duplicates
TextKey(text) == Strip(Lower_(Strip(text)))

\* C25: every candidate that meets the threshold, is not classified as
\* header/footer and lies on a page that stays within the per-page cap has
\* an accepted heading with its lowercased, trimmed text: a candidate that
\* was dropped as header/footer or by the cap does not suppress a later
\* candidate with the same text
C25_LostOnlyToAccepted ==
  call.fn = "_detect_headings_from_blocks" =>
    \A i \in 1..Len(call.scored_blocks) :
       LET block == call.scored_blocks[i].block
       IN /\ call.scored_blocks[i].score >= call.threshold
          /\ ~_is_header_footer_advanced(Strip(block.text), block)
          /\ PageCount(call.value, block.page) <= MaxHeadingsPerPage
          => \E j \in 1..Len(call.value) :
                TextKey(call.value[j].text) = TextKey(block.text)

====
